---- MODULE Spec2Model ----
(***************************************************************************)
(* Dual N-Back trial engine (DualNBackApp): React state, the recurring     *)
(* useInterval tick, the per-trial miss timer, the block-end reset timer    *)
(* and the user's controls.  Every handler runs against the state of the   *)
(* latest render; a timer callback keeps the values of the render in which *)
(* it was created (its closure).  Time is kept as the milliseconds left on *)
(* every pending timer.                                                    *)
(***************************************************************************)
EXTENDS Integers, Sequences, FiniteSets, TLC

\* ---------------------------------------------------------------- bounds
BlockLenBound == 2      \* trials per block in the model (DEFAULT_BLOCK_LEN scaled down)
PosBound      == 2      \* grid cells the generator draws from in the model
LetterBound   == 2      \* letters the generator draws from in the model
MaxN          == 1      \* largest N typed into the settings field
MaxCount      == 8      \* largest hit or miss counter drawn for a block-end decision
MaxFalse      == 1      \* largest false-alarm counter drawn for a block-end decision
MaxStartN     == 4      \* largest n drawn for a block-end decision

\* ------------------------------------------------------ program constants
GRID_SIZE     == 3
DEFAULT_BLOCK_LEN == 20
LETTER_POOL   == <<"A","E","I","O","U","B","K","M","P","S","T">>
InitN         == 2
InitSpeedMs   == 2500
MinSpeedMs    == 300
MissMarginMs  == 80
ResetPauseMs  == 400

Max(a, b) == IF a >= b THEN a ELSE b
Min(a, b) == IF a <= b THEN a ELSE b

Positions == 0 .. (Min(GRID_SIZE * GRID_SIZE, PosBound) - 1)
Letters   == { LETTER_POOL[i] : i \in 1 .. Min(Len(LETTER_POOL), LetterBound) }

\* generateNextStimulus(): any cell, any letter
Stimuli == [pos : Positions, letter : Letters]

LetterIndex(l) == CHOOSE i \in 1 .. Len(LETTER_POOL) : LETTER_POOL[i] = l

\* The engine only ever compares cells, and letters, of one block for
\* equality, so every run is a renaming of one in which a cell (a letter) not
\* yet seen in the block is the first unused one; the draws are taken from
\* these representatives.
Drawn(strm) ==
  LET cells == { strm[k].pos : k \in DOMAIN strm }
      lets  == { LetterIndex(strm[k].letter) : k \in DOMAIN strm }
  IN  { s \in Stimuli :
          /\ \A p \in Positions : p < s.pos => p \in cells
          /\ \A i \in 1 .. Len(LETTER_POOL) : i < LetterIndex(s.letter) => i \in lets }

NULL == [pos |-> -1, letter |-> "null"]

emptyTally == [posHits |-> 0, posMisses |-> 0, posFalse |-> 0,
               sndHits |-> 0, sndMisses |-> 0, sndFalse |-> 0]

\* values typed into the settings inputs
NInputs     == 0 .. MaxN

Channels == {"pos", "snd"}
NoTimer  == -1

VARIABLES
  running, n, speedMs, blockLen, trialIdx, stream, current, tally,
  allowPressPos, allowPressSnd,
  intervalLeft,     \* ms until the setInterval callback runs, NoTimer if none
  missTimers,       \* pending miss timers with their closures
  resetTimers,      \* pending setTimeout(() => resetBlock(nextN), 400)
  trialN,           \* history: n of the render in which the latest trial started
  outcomes,         \* history: tally events recorded for the latest trial, per channel
  outFired,         \* history: tally events of the earlier trial whose timer fired last
  ignored           \* history: channel of the last press on the latest trial that changed no
                    \* counter, pressedIdle after a press that found no current stimulus

vars == <<running, n, speedMs, blockLen, trialIdx, stream, current, tally,
          allowPressPos, allowPressSnd, intervalLeft, missTimers, resetTimers,
          trialN, outcomes, outFired, ignored>>

appVars   == <<running, n, speedMs, blockLen, trialIdx, stream, current, tally,
               allowPressPos, allowPressSnd>>
histVars  == <<trialN, outcomes, outFired, ignored>>

noOutcomes == [pos |-> <<>>, snd |-> <<>>]
noneIgnored == "none"
pressedIdle == "idle"     \* value of ignored: the last press found no current stimulus

Init ==
  /\ running = FALSE
  /\ n = InitN
  /\ speedMs = InitSpeedMs
  /\ blockLen = BlockLenBound
  /\ trialIdx = 0
  /\ stream = <<>>
  /\ current = NULL
  /\ tally = emptyTally
  /\ allowPressPos = TRUE
  /\ allowPressSnd = TRUE
  /\ intervalLeft = NoTimer
  /\ missTimers = <<>>
  /\ resetTimers = <<>>
  /\ trialN = InitN
  /\ outcomes = noOutcomes
  /\ outFired = noOutcomes
  /\ ignored = noneIgnored

\* ------------------------------------------------------------------ time
PendingLefts ==
  (IF intervalLeft = NoTimer THEN {} ELSE {intervalLeft})
    \cup { missTimers[i].left : i \in DOMAIN missTimers }
    \cup { resetTimers[i].left : i \in DOMAIN resetTimers }

IsEarliest(d) == d \in PendingLefts /\ \A e \in PendingLefts : d <= e

RemoveAt(s, i) == [k \in 1 .. (Len(s) - 1) |-> IF k < i THEN s[k] ELSE s[k + 1]]

Elapse(s, d) == [k \in DOMAIN s |-> [s[k] EXCEPT !.left = @ - d]]

\* history kept inside a pending miss timer: stale = armed before the last
\* resetBlock; latest = its trial is the most recent one; out = the events its
\* trial had received when a newer trial started
MarkStale(s) == [k \in DOMAIN s |-> [s[k] EXCEPT !.stale = TRUE]]

Retire(s, out) ==
  [k \in DOMAIN s |-> IF s[k].latest
                      THEN [s[k] EXCEPT !.latest = FALSE, !.out = out]
                      ELSE s[k]]

\* ------------------------------------------------------------ n-back match
\* variant: the earlier index clamped at 0 instead of guarded
PosMatchClamped(strm, idx, nn, stim) ==
  LET withStim == IF idx + 1 \in DOMAIN strm THEN strm ELSE Append(strm, stim)
  IN  withStim[Max(0, idx - nn) + 1].pos = stim.pos

\* stream[idx - n]?.pos === stim.pos, guarded by idx - n >= 0
PosMatch(strm, idx, nn, stim) ==
  /\ idx - nn >= 0
  /\ (idx - nn + 1) \in DOMAIN strm
  /\ strm[idx - nn + 1].pos = stim.pos

SndMatch(strm, idx, nn, stim) ==
  /\ idx - nn >= 0
  /\ (idx - nn + 1) \in DOMAIN strm
  /\ strm[idx - nn + 1].letter = stim.letter

\* ------------------------------------------------------------- resetBlock
\* variant: resetBlock() without setCurrent(null)
ResetBlockToKeepingCurrent(nextN) ==
  /\ trialIdx' = 0
  /\ stream' = <<>>
  /\ current' = current
  /\ tally' = emptyTally
  /\ allowPressPos' = TRUE
  /\ allowPressSnd' = TRUE
  /\ n' = IF nextN = NoTimer THEN n ELSE Max(1, nextN)

\* the state part of resetBlock(); nextN = NoTimer stands for "no argument"
ResetBlockTo(nextN) ==
  /\ trialIdx' = 0
  /\ stream' = <<>>
  /\ current' = NULL
  /\ tally' = emptyTally
  /\ allowPressPos' = TRUE
  /\ allowPressSnd' = TRUE
  /\ n' = IF nextN = NoTimer THEN n ELSE Max(1, nextN)

\* the Reset Block button
ResetBlock ==
  /\ ResetBlockTo(NoTimer)
  /\ missTimers' = MarkStale(missTimers)
  /\ UNCHANGED <<running, speedMs, blockLen, intervalLeft, resetTimers>>
  /\ UNCHANGED histVars

\* ------------------------------------------------------------ start / stop
\* variant: start() without its resetBlock() call
StartWithoutReset ==
  /\ ~running
  /\ running' = TRUE
  /\ intervalLeft' = speedMs
  /\ UNCHANGED <<n, speedMs, blockLen, trialIdx, stream, current, tally,
                 allowPressPos, allowPressSnd, missTimers, resetTimers>>
  /\ UNCHANGED histVars

\* the Start button (shown while not running): resetBlock(); setRunning(true);
\* the render that follows creates the interval with delay speedMs
Start ==
  /\ ~running
  /\ ResetBlockTo(NoTimer)
  /\ running' = TRUE
  /\ intervalLeft' = speedMs
  /\ missTimers' = MarkStale(missTimers)
  /\ UNCHANGED <<speedMs, blockLen, resetTimers>>
  /\ UNCHANGED histVars

Stop ==
  /\ running
  /\ running' = FALSE
  /\ current' = NULL
  /\ intervalLeft' = NoTimer
  /\ UNCHANGED <<n, speedMs, blockLen, trialIdx, stream, tally, allowPressPos,
                 allowPressSnd, missTimers, resetTimers>>
  /\ UNCHANGED histVars

\* ---------------------------------------------------------------- settings
\* variant: the typed value stored as it is
SetNUnclamped(v) ==
  /\ n' = v
  /\ UNCHANGED <<running, speedMs, blockLen, trialIdx, stream, current, tally,
                 allowPressPos, allowPressSnd, intervalLeft, missTimers,
                 resetTimers>>
  /\ UNCHANGED histVars

\* the Initial N input: setN(Math.max(1, parseInt(value || "1")))
SetN(v) ==
  /\ n' = Max(1, v)
  /\ UNCHANGED <<running, speedMs, blockLen, trialIdx, stream, current, tally,
                 allowPressPos, allowPressSnd, intervalLeft, missTimers,
                 resetTimers>>
  /\ UNCHANGED histVars

\* ------------------------------------------------------- block-end decision
\* variant: false alarms counted as attempts
NextNWithFalseAlarms(t, nn) ==
  LET combinedAttempts == t.posHits + t.posMisses + t.posFalse
                            + t.sndHits + t.sndMisses + t.sndFalse
      combinedHits == t.posHits + t.sndHits
      accGE75 == combinedAttempts # 0 /\ 4 * combinedHits >= 3 * combinedAttempts
      accLT55 == combinedAttempts = 0 \/ 20 * combinedHits < 11 * combinedAttempts
  IN  IF accGE75 THEN nn + 1 ELSE (IF accLT55 THEN Max(1, nn - 1) ELSE nn)

\* acc = combinedAttempts ? combinedHits / combinedAttempts : 0, compared
\* with 0.75 and 0.55.  0.75 is a double and the quotient is correctly
\* rounded, so acc >= 0.75 iff 4h >= 3a; the literal 0.55 is the double
\* nearest to 11/20 and every other h/a with a counter sum this small is
\* far more than one rounding step away, so acc < 0.55 iff 20h < 11a.
NextN(t, nn) ==
  LET posAtt == t.posHits + t.posMisses
      sndAtt == t.sndHits + t.sndMisses
      combinedAttempts == posAtt + sndAtt
      combinedHits == t.posHits + t.sndHits
      accGE75 == combinedAttempts # 0 /\ 4 * combinedHits >= 3 * combinedAttempts
      accLT55 == combinedAttempts = 0 \/ 20 * combinedHits < 11 * combinedAttempts
  IN  IF accGE75 THEN nn + 1 ELSE (IF accLT55 THEN Max(1, nn - 1) ELSE nn)

\* ---------------------------------------------------------- interval tick
\* variant: the block-end tick schedules nothing
TickWithoutBlockEnd ==
  /\ intervalLeft # NoTimer
  /\ IsEarliest(intervalLeft)
  /\ running
  /\ intervalLeft' = speedMs
  /\ IF trialIdx >= blockLen
     THEN /\ resetTimers' = Elapse(resetTimers, intervalLeft)
          /\ missTimers' = Elapse(missTimers, intervalLeft)
          /\ UNCHANGED appVars
          /\ UNCHANGED histVars
     ELSE /\ \E next \in Drawn(stream) :
               /\ stream' = Append(stream, next)
               /\ current' = next
               /\ missTimers' = Append(Retire(Elapse(missTimers, intervalLeft), outcomes),
                                  [left |-> Max(0, speedMs - MissMarginMs),
                                   indexForMiss |-> Len(stream),
                                   stream |-> stream,
                                   next |-> next,
                                   n |-> n,
                                   allowPressPos |-> allowPressPos,
                                   allowPressSnd |-> allowPressSnd,
                                   stale |-> FALSE,
                                   latest |-> TRUE,
                                   out |-> noOutcomes])
          /\ trialIdx' = trialIdx + 1
          /\ allowPressPos' = TRUE
          /\ allowPressSnd' = TRUE
          /\ resetTimers' = Elapse(resetTimers, intervalLeft)
          /\ trialN' = n
          /\ outcomes' = noOutcomes
          /\ ignored' = noneIgnored
          /\ UNCHANGED <<running, n, speedMs, blockLen, tally, outFired>>

\* variant: the block-end test one trial late
TickPastBlockEnd ==
  /\ intervalLeft # NoTimer
  /\ IsEarliest(intervalLeft)
  /\ running
  /\ intervalLeft' = speedMs
  /\ IF trialIdx > blockLen
     THEN /\ resetTimers' = Append(Elapse(resetTimers, intervalLeft),
                                   [left |-> ResetPauseMs, nextN |-> NextN(tally, n)])
          /\ missTimers' = Elapse(missTimers, intervalLeft)
          /\ UNCHANGED appVars
          /\ UNCHANGED histVars
     ELSE /\ \E next \in Drawn(stream) :
               /\ stream' = Append(stream, next)
               /\ current' = next
               /\ missTimers' = Append(Retire(Elapse(missTimers, intervalLeft), outcomes),
                                  [left |-> Max(0, speedMs - MissMarginMs),
                                   indexForMiss |-> Len(stream),
                                   stream |-> stream,
                                   next |-> next,
                                   n |-> n,
                                   allowPressPos |-> allowPressPos,
                                   allowPressSnd |-> allowPressSnd,
                                   stale |-> FALSE,
                                   latest |-> TRUE,
                                   out |-> noOutcomes])
          /\ trialIdx' = trialIdx + 1
          /\ allowPressPos' = TRUE
          /\ allowPressSnd' = TRUE
          /\ resetTimers' = Elapse(resetTimers, intervalLeft)
          /\ trialN' = n
          /\ outcomes' = noOutcomes
          /\ ignored' = noneIgnored
          /\ UNCHANGED <<running, n, speedMs, blockLen, tally, outFired>>

\* the callback handed to useInterval, run every speedMs while running
Tick ==
  /\ intervalLeft # NoTimer
  /\ IsEarliest(intervalLeft)
  /\ running
  /\ intervalLeft' = speedMs
  /\ IF trialIdx >= blockLen
     THEN /\ resetTimers' = Append(Elapse(resetTimers, intervalLeft),
                                   [left |-> ResetPauseMs, nextN |-> NextN(tally, n)])
          /\ missTimers' = Elapse(missTimers, intervalLeft)
          /\ UNCHANGED appVars
          /\ UNCHANGED histVars
     ELSE /\ \E next \in Drawn(stream) :
               /\ stream' = Append(stream, next)
               /\ current' = next
               /\ missTimers' = Append(Retire(Elapse(missTimers, intervalLeft), outcomes),
                                  [left |-> Max(0, speedMs - MissMarginMs),
                                   indexForMiss |-> Len(stream),
                                   stream |-> stream,
                                   next |-> next,
                                   n |-> n,
                                   allowPressPos |-> allowPressPos,
                                   allowPressSnd |-> allowPressSnd,
                                   stale |-> FALSE,
                                   latest |-> TRUE,
                                   out |-> noOutcomes])
          /\ trialIdx' = trialIdx + 1
          /\ allowPressPos' = TRUE
          /\ allowPressSnd' = TRUE
          /\ resetTimers' = Elapse(resetTimers, intervalLeft)
          /\ trialN' = n
          /\ outcomes' = noOutcomes
          /\ ignored' = noneIgnored
          /\ UNCHANGED <<running, n, speedMs, blockLen, tally, outFired>>

\* --------------------------------------------------------------- missTimer
MissPos(m) == PosMatch(m.stream, m.indexForMiss, m.n, m.next) /\ m.allowPressPos
MissSnd(m) == SndMatch(m.stream, m.indexForMiss, m.n, m.next) /\ m.allowPressSnd

WithMisses(out, m) ==
  [pos |-> IF MissPos(m) THEN Append(out.pos, "miss") ELSE out.pos,
   snd |-> IF MissSnd(m) THEN Append(out.snd, "miss") ELSE out.snd]

MissTimerFire(i) ==
  LET m == missTimers[i] IN
  /\ IsEarliest(m.left)
  /\ tally' = [tally EXCEPT
                 !.posMisses = IF MissPos(m) THEN @ + 1 ELSE @,
                 !.sndMisses = IF MissSnd(m) THEN @ + 1 ELSE @]
  /\ IF m.latest
     THEN outcomes' = WithMisses(outcomes, m) /\ UNCHANGED outFired
     ELSE outFired' = WithMisses(m.out, m) /\ UNCHANGED outcomes
  /\ missTimers' = Elapse(RemoveAt(missTimers, i), m.left)
  /\ resetTimers' = Elapse(resetTimers, m.left)
  /\ intervalLeft' = IF intervalLeft = NoTimer THEN NoTimer ELSE intervalLeft - m.left
  /\ UNCHANGED <<running, n, speedMs, blockLen, trialIdx, stream, current,
                 allowPressPos, allowPressSnd, trialN, ignored>>

\* ------------------------------------------------- block-end reset timeout
\* variant: the reset also resumes the run
ResetTimerFireResuming(i) ==
  LET r == resetTimers[i] IN
  /\ IsEarliest(r.left)
  /\ ResetBlockTo(r.nextN)
  /\ resetTimers' = Elapse(RemoveAt(resetTimers, i), r.left)
  /\ missTimers' = MarkStale(Elapse(missTimers, r.left))
  /\ running' = TRUE
  /\ intervalLeft' = IF intervalLeft = NoTimer THEN speedMs ELSE intervalLeft - r.left
  /\ UNCHANGED <<speedMs, blockLen>>
  /\ UNCHANGED histVars

\* setTimeout(() => resetBlock(nextN), 400) runs; it is never cancelled
ResetTimerFire(i) ==
  LET r == resetTimers[i] IN
  /\ IsEarliest(r.left)
  /\ ResetBlockTo(r.nextN)
  /\ resetTimers' = Elapse(RemoveAt(resetTimers, i), r.left)
  /\ missTimers' = MarkStale(Elapse(missTimers, r.left))
  /\ intervalLeft' = IF intervalLeft = NoTimer THEN NoTimer ELSE intervalLeft - r.left
  /\ UNCHANGED <<running, speedMs, blockLen>>
  /\ UNCHANGED histVars

\* ------------------------------------------------------------- handlePress
\* variant: the updater without the allowPress test
PressTallyUnguarded(prev, kind, allowed, isMatch) ==
  IF kind = "pos"
  THEN IF isMatch THEN [prev EXCEPT !.posHits = @ + 1]
                  ELSE [prev EXCEPT !.posFalse = @ + 1]
  ELSE IF isMatch THEN [prev EXCEPT !.sndHits = @ + 1]
                  ELSE [prev EXCEPT !.sndFalse = @ + 1]

\* the updater handed to setTally by handlePress
PressTally(prev, kind, allowed, isMatch) ==
  IF kind = "pos"
  THEN IF ~allowed THEN prev
       ELSE IF isMatch THEN [prev EXCEPT !.posHits = @ + 1]
                       ELSE [prev EXCEPT !.posFalse = @ + 1]
  ELSE IF ~allowed THEN prev
       ELSE IF isMatch THEN [prev EXCEPT !.sndHits = @ + 1]
                       ELSE [prev EXCEPT !.sndFalse = @ + 1]

\* variant: handlePress without the test for a current stimulus
HandlePressWithoutCurrentTest(kind) ==
  /\ running
  /\ LET idx == Len(stream) - 1
           posMatch == PosMatch(stream, idx, n, current)
           sndMatch == SndMatch(stream, idx, n, current)
           allowed == IF kind = "pos" THEN allowPressPos ELSE allowPressSnd
           isMatch == IF kind = "pos" THEN posMatch ELSE sndMatch
       IN  /\ tally' = PressTally(tally, kind, allowed, isMatch)
           /\ allowPressPos' = IF kind = "pos" THEN FALSE ELSE allowPressPos
           /\ allowPressSnd' = IF kind = "pos" THEN allowPressSnd ELSE FALSE
           /\ outcomes' = IF tally' = tally THEN outcomes
                          ELSE [outcomes EXCEPT ![kind] =
                                  Append(@, IF isMatch THEN "hit" ELSE "fa")]
           /\ ignored' = IF tally' = tally THEN kind
                         ELSE ignored
  /\ UNCHANGED <<running, n, speedMs, blockLen, trialIdx, stream, current,
                 intervalLeft, missTimers, resetTimers, trialN, outFired>>

\* the two match buttons are disabled while not running
HandlePress(kind) ==
  /\ running
  /\ IF current = NULL
     THEN /\ UNCHANGED <<tally, allowPressPos, allowPressSnd, outcomes>>
          /\ ignored' = pressedIdle
     ELSE LET idx == Len(stream) - 1
              posMatch == PosMatch(stream, idx, n, current)
              sndMatch == SndMatch(stream, idx, n, current)
              allowed == IF kind = "pos" THEN allowPressPos ELSE allowPressSnd
              isMatch == IF kind = "pos" THEN posMatch ELSE sndMatch
          IN  /\ tally' = PressTally(tally, kind, allowed, isMatch)
              /\ allowPressPos' = IF kind = "pos" THEN FALSE ELSE allowPressPos
              /\ allowPressSnd' = IF kind = "pos" THEN allowPressSnd ELSE FALSE
              /\ outcomes' = IF tally' = tally THEN outcomes
                             ELSE [outcomes EXCEPT ![kind] =
                                     Append(@, IF isMatch THEN "hit" ELSE "fa")]
              /\ ignored' = IF tally' = tally THEN kind
                            ELSE ignored
  /\ UNCHANGED <<running, n, speedMs, blockLen, trialIdx, stream, current,
                 intervalLeft, missTimers, resetTimers, trialN, outFired>>

Next ==
  \/ Start
  \/ Stop
  \/ ResetBlock
  \/ \E v \in NInputs : SetN(v)
  \/ Tick
  \/ \E i \in DOMAIN missTimers : MissTimerFire(i)
  \/ \E i \in DOMAIN resetTimers : ResetTimerFire(i)
  \/ \E kind \in Channels : HandlePress(kind)

Spec == Init /\ [][Next]_vars

\* ------------------------------------------- the block-end decision alone
\* A block of DEFAULT_BLOCK_LEN trials has just been presented; the tally and
\* n are drawn from bounded sets, then the block-end tick and its reset run.
InitAcc ==
  /\ running = TRUE
  /\ n \in 1 .. MaxStartN
  /\ speedMs = InitSpeedMs
  /\ blockLen = DEFAULT_BLOCK_LEN
  /\ trialIdx = DEFAULT_BLOCK_LEN
  /\ stream = [k \in 1 .. DEFAULT_BLOCK_LEN |-> [pos |-> 0, letter |-> LETTER_POOL[1]]]
  /\ current = [pos |-> 0, letter |-> LETTER_POOL[1]]
  /\ \E ph, pm, sh, sm \in 0 .. MaxCount : \E pf, sf \in 0 .. MaxFalse :
       tally = [posHits |-> ph, posMisses |-> pm, posFalse |-> pf,
                sndHits |-> sh, sndMisses |-> sm, sndFalse |-> sf]
  /\ allowPressPos = TRUE
  /\ allowPressSnd = TRUE
  /\ intervalLeft = MissMarginMs
  /\ missTimers = <<>>
  /\ resetTimers = <<>>
  /\ trialN = n
  /\ outcomes = noOutcomes
  /\ outFired = noOutcomes
  /\ ignored = noneIgnored

NextAcc ==
  \/ trialIdx >= blockLen /\ Tick
  \/ \E i \in DOMAIN resetTimers : ResetTimerFire(i)

SpecAcc == InitAcc /\ [][NextAcc]_vars

\* ------------------------------------------------------ timers that are due
\* The browser runs every timer callback once its delay has passed: the tick,
\* a miss timer and a block-end reset are each taken when they stay due.  The
\* user's start, stop, Reset Block and presses are left free.
NextLive ==
  \/ Start
  \/ Stop
  \/ ResetBlock
  \/ Tick
  \/ \E i \in DOMAIN missTimers : MissTimerFire(i)
  \/ \E i \in DOMAIN resetTimers : ResetTimerFire(i)
  \/ \E kind \in Channels : HandlePress(kind)

SpecLive ==
  /\ Init
  /\ [][NextLive]_vars
  /\ WF_vars(Tick)
  /\ WF_vars(\E i \in DOMAIN missTimers : MissTimerFire(i))
  /\ WF_vars(\E i \in DOMAIN resetTimers : ResetTimerFire(i))

\* ------------------------------------------------- the engine's timing alone
\* values typed into the Speed input
SpeedInputs == {MinSpeedMs, InitSpeedMs}

\* the Speed input: setSpeedMs(Math.max(300, parseInt(value || "1500"))).
\* While running the interval's delay changes with it, so useInterval's effect
\* clears the interval and creates one with the new delay; pending timeouts
\* keep their delays.
SetSpeedMs(v) ==
  /\ Max(MinSpeedMs, v) # speedMs
  /\ speedMs' = Max(MinSpeedMs, v)
  /\ intervalLeft' = IF running THEN Max(MinSpeedMs, v) ELSE intervalLeft
  /\ UNCHANGED <<running, n, blockLen, trialIdx, stream, current, tally,
                 allowPressPos, allowPressSnd, missTimers, resetTimers>>
  /\ UNCHANGED histVars

\* start, stop, Reset Block, the Speed input and the three timers; no presses
NextTimed ==
  \/ Start
  \/ Stop
  \/ ResetBlock
  \/ \E v \in SpeedInputs : SetSpeedMs(v)
  \/ Tick
  \/ \E i \in DOMAIN missTimers : MissTimerFire(i)
  \/ \E i \in DOMAIN resetTimers : ResetTimerFire(i)

SpecTimed == Init /\ [][NextTimed]_vars

\* ====================================================== derived notions
PressEvents(seq) == Cardinality({k \in DOMAIN seq : seq[k] \in {"hit", "fa"}})

\* the latest trial's miss timer is no longer pending: its window has expired
WindowExpired == \A i \in DOMAIN missTimers : ~missTimers[i].latest

\* trials of the current block whose response window has closed
ClosedTrials ==
  trialIdx - Cardinality({i \in DOMAIN missTimers : ~missTimers[i].stale})

\* the block-end tick has run and its reset is still to come
BlockCompleted == running /\ trialIdx >= blockLen /\ resetTimers # <<>>

\* trials of the block with index i < nn
EarlyTrials(nn) == Cardinality({i \in 0 .. (trialIdx - 1) : i < nn})

\* the events of the trial a pending miss timer belongs to
TrialEvents(m) == IF m.latest THEN outcomes ELSE m.out

\* ================================================================ claims

\* C1: for every trial and each channel at most one scored outcome (hit,
\* false alarm or miss) is ever recorded.
C1_AtMostOneOutcome ==
  \A ch \in Channels : Len(outcomes[ch]) <= 1 /\ Len(outFired[ch]) <= 1

\* C2: when a trial's window expires, a miss is recorded on a channel exactly
\* when the trial's ground truth for the channel is a match and no response
\* was submitted on that channel during that same trial.
C2_MissIffMatchUnanswered ==
  [][\A i \in DOMAIN missTimers :
       MissTimerFire(i) =>
         LET m == missTimers[i] IN
         /\ (tally'.posMisses = tally.posMisses + 1)
              <=> (PosMatch(m.stream, m.indexForMiss, m.n, m.next)
                     /\ PressEvents(TrialEvents(m).pos) = 0)
         /\ (tally'.sndMisses = tally.sndMisses + 1)
              <=> (SndMatch(m.stream, m.indexForMiss, m.n, m.next)
                     /\ PressEvents(TrialEvents(m).snd) = 0)]_vars

\* C3: presses on the same channel during one trial yield exactly one recorded
\* outcome: the first press records a hit or a false alarm and closes the
\* channel, every later press before the next tick leaves the tally unchanged.
C3_OnePressOutcome ==
  /\ [](\A ch \in Channels :
          /\ PressEvents(outcomes[ch]) <= 1
          /\ (ignored = ch /\ current # NULL) => PressEvents(outcomes[ch]) = 1)
  /\ [][\A kind \in Channels :
          (HandlePress(kind) /\ current # NULL) =>
             LET open == IF kind = "pos" THEN allowPressPos ELSE allowPressSnd
                 hits == IF kind = "pos" THEN "posHits" ELSE "sndHits"
                 fas  == IF kind = "pos" THEN "posFalse" ELSE "sndFalse"
             IN  IF open
                 THEN /\ \/ tally' = [tally EXCEPT ![hits] = @ + 1]
                         \/ tally' = [tally EXCEPT ![fas] = @ + 1]
                      /\ IF kind = "pos" THEN ~allowPressPos' ELSE ~allowPressSnd'
                 ELSE tally' = tally]_vars

C3_Witness ==
  /\ current # NULL
  /\ ignored = "pos"
  /\ ~allowPressPos
  /\ PressEvents(outcomes.pos) = 1

\* C4: a press that arrives after the current trial's response window has
\* expired (miss timer fired, next tick not yet run) changes no tally counter.
C4_LatePressDropped ==
  [][\A kind \in Channels :
       (HandlePress(kind) /\ current # NULL /\ WindowExpired) => tally' = tally]_vars

\* C5: after stop() no tally event is recorded until the next start(): while
\* the engine is Idle no counter is incremented.
C5_NoEventWhileIdle ==
  [][(~running /\ ~running') =>
       \A f \in DOMAIN tally : tally'[f] <= tally[f]]_vars

\* C6: a miss timer armed for a trial of an earlier block or run never
\* increments a miss counter after the reset.
C6_NoStaleMiss ==
  [][\A i \in DOMAIN missTimers :
       (MissTimerFire(i) /\ missTimers[i].stale) =>
          /\ tally'.posMisses = tally.posMisses
          /\ tally'.sndMisses = tally.sndMisses]_vars

\* C7: within a block posHits + posMisses, and sndHits + sndMisses, are at
\* most the number of trials of the block whose response window has closed.
C7_AttemptsBoundedByClosed ==
  /\ tally.posHits + tally.posMisses <= ClosedTrials
  /\ tally.sndHits + tally.sndMisses <= ClosedTrials

\* C8: a trial whose index is below the n it started with has no match on
\* either channel: a press on it is never a hit and its expiry never a miss.
C8_NoMatchBeforeN ==
  [][/\ \A kind \in Channels :
          (HandlePress(kind) /\ current # NULL /\ Len(stream) - 1 < trialN) =>
             /\ tally'.posHits = tally.posHits
             /\ tally'.sndHits = tally.sndHits
     /\ \A i \in DOMAIN missTimers :
          (MissTimerFire(i) /\ missTimers[i].indexForMiss < missTimers[i].n) =>
             /\ tally'.posMisses = tally.posMisses
             /\ tally'.sndMisses = tally.sndMisses]_vars

C10_Hits     == tally.posHits + tally.sndHits
C10_Attempts == tally.posHits + tally.posMisses + tally.sndHits + tally.sndMisses
C10_Rule ==
  IF C10_Attempts # 0 /\ 100 * C10_Hits >= 75 * C10_Attempts THEN n + 1
  ELSE IF C10_Attempts = 0 \/ 100 * C10_Hits < 55 * C10_Attempts
       THEN (IF n - 1 >= 1 THEN n - 1 ELSE 1)
       ELSE n

C10_NextNRule ==
  /\ [][(Tick /\ trialIdx >= blockLen) =>
          resetTimers'[Len(resetTimers')].nextN = C10_Rule]_vars
  /\ [][\A i \in DOMAIN resetTimers :
          ResetTimerFire(i) => n' = resetTimers[i].nextN]_vars

\* the three worked examples: 15/20 at n=2 gives 3, 5/20 at n=3 gives 2,
\* 12/20 = 0.60 at n=4 gives 4
C10_Witness ==
  /\ resetTimers # <<>>
  /\ tally.posFalse = MaxFalse
  /\ \/ /\ tally.posHits = 8 /\ tally.posMisses = 2
        /\ tally.sndHits = 7 /\ tally.sndMisses = 3
        /\ n = 2 /\ resetTimers[1].nextN = 3
     \/ /\ tally.posHits = 3 /\ tally.posMisses = 7
        /\ tally.sndHits = 2 /\ tally.sndMisses = 8
        /\ n = 3 /\ resetTimers[1].nextN = 2
     \/ /\ tally.posHits = 6 /\ tally.posMisses = 4
        /\ tally.sndHits = 6 /\ tally.sndMisses = 4
        /\ n = 4 /\ resetTimers[1].nextN = 4

\* C11: n >= 1 in every reachable state: no block completion (however low
\* the accuracy), no resetBlock(nextN) and no settings change brings n below 1.
C11_NAtLeastOne == n >= 1

\* a block ended at n = 1 without a single hit: the decision keeps n at 1
C11_Witness ==
  /\ n = 1
  /\ resetTimers # <<>>
  /\ resetTimers[1].nextN = 1
  /\ tally.posHits + tally.sndHits = 0
  /\ trialIdx >= blockLen

\* C12: changing n while a trial is in flight never changes that trial's
\* ground truth: the match value that classifies a press on the trial equals
\* the match value the same trial's window-expiry evaluation computes.
C12_PressAndExpiryAgree ==
  [][\A kind \in Channels :
       (/\ HandlePress(kind)
        /\ current # NULL
        /\ IF kind = "pos" THEN allowPressPos ELSE allowPressSnd) =>
          \A i \in DOMAIN missTimers :
            LET m == missTimers[i] IN
            (m.latest /\ ~m.stale) =>
              IF kind = "pos"
              THEN PosMatch(stream, Len(stream) - 1, n, current)
                     = PosMatch(m.stream, m.indexForMiss, m.n, m.next)
              ELSE SndMatch(stream, Len(stream) - 1, n, current)
                     = SndMatch(m.stream, m.indexForMiss, m.n, m.next)]_vars

\* C13: stop() in the middle of a trial followed by start() begins a fresh
\* block: right after start() all six counters are 0, the trial index is 0,
\* the history is empty and the engine is Running.
C13_FreshBlockAfterRestart ==
  [][Start =>
       /\ running'
       /\ tally' = emptyTally
       /\ trialIdx' = 0
       /\ stream' = <<>>
       /\ current' = NULL]_vars

\* just restarted while the miss timer of the discarded trial, on which a
\* press had been scored, is still pending
C13_Witness ==
  /\ running
  /\ intervalLeft = speedMs
  /\ tally = emptyTally
  /\ trialIdx = 0
  /\ stream = <<>>
  /\ PressEvents(outcomes.pos) = 1
  /\ \E i \in DOMAIN missTimers :
        /\ missTimers[i].latest
        /\ missTimers[i].stale
        /\ missTimers[i].indexForMiss = 1

\* C14: when stop() arrives during the pause between the end of a block and
\* the start of the next one the engine is Idle and stays Idle: no stimulus
\* is generated or presented until start() is called again.
C14_IdleUntilStart ==
  /\ [](~running => (current = NULL /\ intervalLeft = NoTimer))
  /\ [][~running =>
          /\ running' => Start
          /\ Len(stream') <= Len(stream)
          /\ trialIdx' <= trialIdx
          /\ current' = NULL
          /\ Len(missTimers') <= Len(missTimers)]_vars

\* stopped during the pause: the block-end reset is still pending
C14_Witness ==
  /\ ~running
  /\ trialIdx >= blockLen
  /\ resetTimers # <<>>
  /\ current = NULL

\* C15: the window-expiry evaluation of trial i happens before the stimulus
\* of trial i+1 is presented and before the block-end accuracy evaluation
\* that follows trial i: when a tick runs, no miss timer of a trial of the
\* running block is still pending.
C15_ExpiryBeforeNextTick ==
  [][Tick => \A i \in DOMAIN missTimers : missTimers[i].stale]_vars

\* C17: each completed block triggers exactly one difficulty evaluation and
\* exactly one reset, for every permitted tick interval: at most one
\* block-end reset is pending at any time, and a block-end reset never runs
\* on a block that has started and is not complete.
C17_OneResetPerBlock ==
  /\ [](Len(resetTimers) <= 1)
  /\ [][\A i \in DOMAIN resetTimers :
          ResetTimerFire(i) => (trialIdx = 0 \/ trialIdx >= blockLen)]_vars

\* a block with no trial presented yet
FreshBlock == trialIdx = 0 /\ stream = <<>> /\ tally = emptyTally

\* C16 (as stated): while the engine stays Running and stop() is never
\* called, every block eventually completes (the trial counter reaches
\* trialsPerBlock and the difficulty is evaluated) and a new block eventually
\* starts with trial index 0, empty history and a zeroed tally.
C16_BlocksComplete ==
  /\ running ~> (~running \/ BlockCompleted)
  /\ BlockCompleted ~> (~running \/ FreshBlock)

\* C16 (amended): the same, provided the Reset Block button is pressed only
\* finitely often.
C16_BlocksCompleteUnlessReset ==
  <>[][~ResetBlock]_vars => C16_BlocksComplete

\* the block-end reset has just run, 400 ms after the block-end tick
C16_Witness ==
  /\ running
  /\ FreshBlock
  /\ current = NULL
  /\ resetTimers = <<>>
  /\ intervalLeft = speedMs - ResetPauseMs

\* C18: with trialsPerBlock unchanged, exactly trialsPerBlock stimuli are
\* generated per completed block: the trial counter never exceeds
\* trialsPerBlock, and the tick that finds the counter at trialsPerBlock
\* generates no stimulus, appends nothing to the history and arms no miss
\* timer.
C18_ExactlyBlockLenStimuli ==
  /\ [](trialIdx <= blockLen)
  /\ [](BlockCompleted => Len(stream) = blockLen)
  /\ [][(Tick /\ trialIdx >= blockLen) =>
          /\ stream' = stream
          /\ current' = current
          /\ trialIdx' = trialIdx
          /\ Len(missTimers') = Len(missTimers)]_vars

\* the block-end tick has just run on a block of blockLen stimuli
C18_Witness ==
  /\ running
  /\ trialIdx = blockLen
  /\ Len(stream) = blockLen
  /\ current = stream[blockLen]
  /\ resetTimers # <<>>
  /\ resetTimers[1].left = ResetPauseMs
  /\ intervalLeft = speedMs
  /\ missTimers = <<>>

\* C19: in every reachable state the history length equals the trial
\* counter and a current stimulus, when set, is the last entry of the history;
\* so a press is classified by comparing the entry at index length-1 with the
\* entry at index length-1-n of the current block's history.
C19_CurrentIsLastOfHistory ==
  /\ [](Len(stream) = trialIdx)
  /\ [](current # NULL => (stream # <<>> /\ current = stream[Len(stream)]))
  /\ [][\A kind \in Channels :
          (/\ HandlePress(kind)
           /\ current # NULL
           /\ IF kind = "pos" THEN allowPressPos ELSE allowPressSnd) =>
             LET len   == Len(stream)
                 match == /\ len - 1 - n >= 0
                          /\ IF kind = "pos"
                             THEN stream[len - n].pos = stream[len].pos
                             ELSE stream[len - n].letter = stream[len].letter
                 hits  == IF kind = "pos" THEN "posHits" ELSE "sndHits"
                 fas   == IF kind = "pos" THEN "posFalse" ELSE "sndFalse"
             IN  tally' = [tally EXCEPT ![IF match THEN hits ELSE fas] = @ + 1]]_vars

\* the second trial of a block is shown and a press on it was scored a hit
\* against the first
C19_Witness ==
  /\ current # NULL
  /\ trialIdx = 2
  /\ Len(stream) = 2
  /\ current = stream[2]
  /\ n = 1
  /\ outcomes.snd = <<"hit">>
  /\ tally.sndHits = 1

\* C20: a press on either channel while there is no current stimulus (after
\* stop(), or after a block reset and before the next tick) changes nothing:
\* the tally, the per-channel answered flags, n, the history and the trial
\* counter are all left unchanged.
C20_PressWithoutStimulusNoOp ==
  [][\A kind \in Channels :
       (HandlePress(kind) /\ current = NULL) =>
          UNCHANGED <<tally, allowPressPos, allowPressSnd, n, stream, trialIdx,
                      current, running, missTimers, resetTimers>>]_vars

\* a press made after the block-end reset and before the next tick
C20_Witness ==
  /\ running
  /\ current = NULL
  /\ ignored = pressedIdle
  /\ FreshBlock
  /\ intervalLeft = speedMs - ResetPauseMs

TypeOK ==
  /\ running \in BOOLEAN
  /\ n \in Nat
  /\ trialIdx \in 0 .. blockLen
  /\ Len(stream) = trialIdx
  /\ Len(missTimers) <= 1

====
